---- MODULE Spec2Model ----
(***************************************************************************)
(* Bearer-token authentication core of src/app/middleware/auth.py:         *)
(* the two lru_cache(maxsize=1) memoised fetches (_get_jwks_uri,           *)
(* _get_jwks), the refresh-once-on-miss key lookup (_get_signing_key) and   *)
(* the validation handler (get_current_user).                              *)
(*                                                                         *)
(* get_current_user is an `async def` that never awaits: requests.get is a *)
(* blocking call, so a validation occupies the event loop from its first   *)
(* line to its return and the other requests in flight wait for it.        *)
(*                                                                         *)
(* The project store of src/app/services/cosmos_db.py: CosmosDBService     *)
(* over its container, the documents being dicts keyed by field name.      *)
(***************************************************************************)
EXTENDS Integers, Sequences, FiniteSets, TLC

VARIABLES
    published,   \* the key identifiers the provider currently publishes
    jwksUri,     \* the single slot of lru_cache around _get_jwks_uri
    jwksCache,   \* the single slot of lru_cache around _get_jwks
    req,         \* the requests: position in the handler, inputs, locals, outcome
    container,   \* the Cosmos DB container: the document stored under each id
    call         \* the last call of CosmosDBService: arguments and outcome

vars == <<published, jwksUri, jwksCache, req, container, call>>

\* ------------------------------------------------------------------ bounds
MaxReqs == 2

Reqs == 1..MaxReqs
\* The clock's readings: before, at and after the expiry the tokens carry.
Times == {0, 1, 2}
Kids == {"k1", "k2"}

\* ------------------------------------------------------------ configuration
AZURE_AD_AUTHORITY == "https://login.example.com/tenant"
AZURE_AD_AUDIENCE == "api://myapp"
Issuer == AZURE_AD_AUTHORITY \o "/v2.0"

\* ------------------------------------------------------ optional values
\* An optional value (dict.get): <<>> is None / absent, <<v>> is the value v.
None == <<>>
Some(v) == <<v>>
\* Python truthiness of dict.get(k): of a string claim, and of a claim kept as
\* a sequence (a list, or the scope string kept as its words and blanks).
TruthyStr(o) == o # None /\ o[1] # ""
TruthySeq(o) == o # None /\ o[1] # <<>>

\* --------------------------------------------------------------- tokens
\* A credential is what follows the scheme in the Authorization header.
\*   form   "empty" (nothing), "garbage" (not a JWT), "jwt"
\*   kid    header parameter kid, "" when the header has none
\*   alg    header parameter alg
\*   signer the key the signature was made with ("forged": none of the provider's)
\*   payload claims: exp, iss optional; aud a set (empty: no aud claim);
\*   preferred_username, upn, email, oid optional strings; roles an optional
\*   list; scp an optional string, kept as its characters' words and blanks.
Payload(exp, iss, aud, pu, upn, email, oid, roles, scp) ==
    [exp |-> exp, iss |-> iss, aud |-> aud, preferred_username |-> pu,
     upn |-> upn, email |-> email, oid |-> oid, roles |-> roles, scp |-> scp]

NoPayload == Payload(None, None, {}, None, None, None, None, None, None)

Jwt(kid, alg, signer, payload) ==
    [form |-> "jwt", kid |-> kid, alg |-> alg, signer |-> signer, payload |-> payload]

EmptyToken == [form |-> "empty", kid |-> "", alg |-> "", signer |-> "", payload |-> NoPayload]
Garbage == [form |-> "garbage", kid |-> "", alg |-> "", signer |-> "", payload |-> NoPayload]

\* An Authorization header value: scheme, sep blanks, the credential, trail
\* blanks. The absent header is the default "" of request.headers.get.
Header(scheme, sep, cred, trail) ==
    [scheme |-> scheme, sep |-> sep, cred |-> cred, trail |-> trail]
AbsentHeader == Header("", 0, EmptyToken, 0)
Bearer(tok) == Header("Bearer", 1, tok, 0)

\* -------------------------------------------------------------- outcomes
\* What get_current_user hands its caller: the user dict, or the exception
\* that leaves it.
Http401(detail) == [kind |-> "HTTPException", detail |-> detail]
RuntimeError(msg) == [kind |-> "RuntimeError", detail |-> msg]
Accepted == [kind |-> "return", detail |-> ""]
Pending == [kind |-> "", detail |-> ""]

MissingCredential == Http401("Missing bearer token")
MalformedToken == Http401("Invalid token header")
SigningKeyNotFound == Http401("Signing key not found")
TokenExpired == Http401("Token expired")
InvalidAudience == Http401("Invalid audience")
InvalidIssuer == Http401("Invalid issuer")
InvalidToken == Http401("Invalid token")
DiscoveryUnavailable == RuntimeError("Failed to load OpenID configuration")
KeySetUnavailable == RuntimeError("Failed to load JWKS")
\* requests.get(None): requests.exceptions.MissingSchema, raised before any I/O.
MissingSchema == [kind |-> "MissingSchema", detail |-> "Invalid URL 'None'"]

\* ------------------------------------------------------- pure functions
\* Mutant: the scheme is compared without regard to case.
StartsWithBearerAnyCase(h) == h.scheme \in {"Bearer", "bearer"} /\ h.sep >= 1

\* auth_header.startswith("Bearer ")
StartsWithBearer(h) == h.scheme = "Bearer" /\ h.sep >= 1

\* auth_header.split(" ", 1)[1].strip(): what follows the first blank, with
\* the blanks around it removed.
ExtractToken(h) == IF h.cred.form = "empty" THEN EmptyToken ELSE h.cred

\* jwt.get_unverified_header(token) raises DecodeError unless the token parses.
HeaderParses(tok) == tok.form = "jwt"

\* str.split() of the scope string: its words, in order.
RECURSIVE Split(_)
Split(s) ==
    IF s = <<>> THEN <<>>
    ELSE IF Head(s) = " " THEN Split(Tail(s))
    ELSE <<Head(s)>> \o Split(Tail(s))

\* Mutant: the fallback chain starts from the object identifier.
PreferredUsernameOidFirst(d) ==
    IF TruthyStr(d.oid) THEN d.oid
    ELSE IF TruthyStr(d.email) THEN d.email
    ELSE IF TruthyStr(d.upn) THEN d.upn
    ELSE d.preferred_username

\* Mutant: the chain takes the first claim the token has, empty or not.
PreferredUsernameFirstPresent(d) ==
    IF d.preferred_username # None THEN d.preferred_username
    ELSE IF d.upn # None THEN d.upn
    ELSE IF d.email # None THEN d.email
    ELSE d.oid

\* decoded.get("preferred_username") or decoded.get("upn") or
\* decoded.get("email") or decoded.get("oid")
PreferredUsername(d) ==
    IF TruthyStr(d.preferred_username) THEN d.preferred_username
    ELSE IF TruthyStr(d.upn) THEN d.upn
    ELSE IF TruthyStr(d.email) THEN d.email
    ELSE d.oid

\* decoded.get("roles") or decoded.get("scp", "").split() if decoded.get("scp") else []
\* Python reads it as (A or B) if C else []: the conditional binds last.
Roles(d) ==
    IF TruthySeq(d.scp)
    THEN (IF TruthySeq(d.roles) THEN d.roles[1] ELSE Split(d.scp[1]))
    ELSE <<>>

UserDict(d) ==
    [preferred_username |-> PreferredUsername(d), roles |-> Roles(d),
     claims |-> d, token_exp |-> d.exp]

\* Mutant: options["verify_exp"] is False.
DecodeOutcomeNoExp(tok, key, now) ==
    LET d == tok.payload IN
    IF tok.alg # "RS256" THEN InvalidToken
    ELSE IF tok.signer # key THEN InvalidToken
    ELSE IF d.iss = None THEN InvalidToken
    ELSE IF d.iss[1] # Issuer THEN InvalidIssuer
    ELSE IF d.aud = {} THEN InvalidToken
    ELSE IF AZURE_AD_AUDIENCE \notin d.aud THEN InvalidAudience
    ELSE Accepted

\* Mutant: options["verify_aud"] is False.
DecodeOutcomeNoAud(tok, key, now) ==
    LET d == tok.payload IN
    IF tok.alg # "RS256" THEN InvalidToken
    ELSE IF tok.signer # key THEN InvalidToken
    ELSE IF d.exp # None /\ d.exp[1] <= now THEN TokenExpired
    ELSE IF d.iss = None THEN InvalidToken
    ELSE IF d.iss[1] # Issuer THEN InvalidIssuer
    ELSE Accepted

\* Mutant: jwt.decode without the algorithms allow-list; the header's alg
\* chooses the verification.
DecodeOutcomeAnyAlg(tok, key, now) ==
    LET d == tok.payload IN
    IF tok.signer # key THEN InvalidToken
    ELSE IF d.exp # None /\ d.exp[1] <= now THEN TokenExpired
    ELSE IF d.iss = None THEN InvalidToken
    ELSE IF d.iss[1] # Issuer THEN InvalidIssuer
    ELSE IF d.aud = {} THEN InvalidToken
    ELSE IF AZURE_AD_AUDIENCE \notin d.aud THEN InvalidAudience
    ELSE Accepted

\* Mutant: the audience is validated before the issuer.
DecodeOutcomeAudFirst(tok, key, now) ==
    LET d == tok.payload IN
    IF tok.alg # "RS256" THEN InvalidToken
    ELSE IF tok.signer # key THEN InvalidToken
    ELSE IF d.exp # None /\ d.exp[1] <= now THEN TokenExpired
    ELSE IF d.aud = {} THEN InvalidToken
    ELSE IF AZURE_AD_AUDIENCE \notin d.aud THEN InvalidAudience
    ELSE IF d.iss = None THEN InvalidToken
    ELSE IF d.iss[1] # Issuer THEN InvalidIssuer
    ELSE Accepted

\* jwt.decode(token, signing_key, algorithms=["RS256"], audience=..., issuer=...)
\* and the except clauses around it. PyJWT checks the header's alg against the
\* allow-list (InvalidAlgorithmError), then the signature
\* (InvalidSignatureError), then the claims in the order exp (expired when
\* exp <= now), iss, aud; a missing iss or aud is MissingRequiredClaimError.
\* Only the expiry, audience and issuer errors have an except clause of their
\* own; every other PyJWTError ends in "Invalid token".
DecodeOutcome(tok, key, now) ==
    LET d == tok.payload IN
    IF tok.alg # "RS256" THEN InvalidToken
    ELSE IF tok.signer # key THEN InvalidToken
    ELSE IF d.exp # None /\ d.exp[1] <= now THEN TokenExpired
    ELSE IF d.iss = None THEN InvalidToken
    ELSE IF d.iss[1] # Issuer THEN InvalidIssuer
    ELSE IF d.aud = {} THEN InvalidToken
    ELSE IF AZURE_AD_AUDIENCE \notin d.aud THEN InvalidAudience
    ELSE Accepted

\* ------------------------------------------------------ the project store
ProjectIds == {"test-project-12345", "test-project-2"}

\* The values of a document's fields, tagged with their Python type. A
\* datetime holds an instant; its isoformat() is the string that writes it.
Str(s) == [type |-> "str", s |-> s, n |-> 0]
IntValue(n) == [type |-> "int", s |-> "", n |-> n]
DateTime(t) == [type |-> "datetime", s |-> "", n |-> t]
NoneValue == [type |-> "NoneType", s |-> "", n |-> 0]
IsoFormat(v) == [type |-> "str", s |-> "isoformat", n |-> v.n]

\* A document is a dict: a function from the names of its fields to values.
EmptyDict == [k \in {} |-> NoneValue]
\* {**a, **b}
Merge(a, b) ==
    [k \in DOMAIN a \cup DOMAIN b |-> IF k \in DOMAIN b THEN b[k] ELSE a[k]]
\* d[k] = v
SetItem(d, k, v) == [x \in DOMAIN d \cup {k} |-> IF x = k THEN v ELSE d[x]]
\* for field, value in d.items(): if isinstance(value, datetime):
\*     d[field] = value.isoformat()
SerializeDatetimes(d) ==
    [k \in DOMAIN d |-> IF d[k].type = "datetime" THEN IsoFormat(d[k]) ELSE d[k]]

\* A call of the service: the operation and its arguments, the document the
\* container held under the id when the call began, and the outcome: the
\* document returned (ret), the boolean returned (ok) or the exception raised.
Call(op, id, updates, now, before, ret, ok, exc) ==
    [op |-> op, id |-> id, updates |-> updates, now |-> now, before |-> before,
     ret |-> ret, ok |-> ok, exc |-> exc]
NoCall == Call("", "", EmptyDict, 0, None, None, FALSE, "")

\* get_project, lines 52-69: the document read from the container; None when
\* there is none under the id (404) and when the read fails otherwise.
get_project(id, readOk) == IF readOk THEN container[id] ELSE None

GetProject(id, readOk) ==
    /\ call' = Call("get_project", id, EmptyDict, 0, container[id],
                    get_project(id, readOk), FALSE, "")
    /\ UNCHANGED <<published, jwksUri, jwksCache, req, container>>

\* What the container's service does to the body of create_item and
\* replace_item: it stores the body with the system properties written by
\* itself, whatever the body says of them (_ts from its own clock, a new _etag,
\* the resource's _rid, _self and _attachments), and answers with the stored
\* document.
Stamp(body, ts, etag) ==
    [k \in DOMAIN body \cup {"_rid", "_self", "_etag", "_attachments", "_ts"} |->
        CASE k = "_ts" -> IntValue(ts)
          [] k = "_etag" -> Str(etag)
          [] k = "_rid" -> Str("rid")
          [] k = "_self" -> Str("self")
          [] k = "_attachments" -> Str("attachments/")
          [] OTHER -> body[k]]

\* create_project, lines 144-170: the id is required; datetimes are written
\* as strings, _ts and _etag are added and the item is created; the response
\* of create_item, the document as stored, is returned. create_item raises
\* when the container has a document under the id, or is unavailable; the
\* exception is logged and raised again.
CreateProject(data, now, storeOk, ts, etag) ==
    IF "id" \notin DOMAIN data
    THEN /\ call' = Call("create_project", "", data, now, None, None, FALSE, "ValueError")
         /\ UNCHANGED <<published, jwksUri, jwksCache, req, container>>
    ELSE LET id == data["id"].s
             body == SetItem(SetItem(SerializeDatetimes(data), "_ts", IntValue(now)),
                             "_etag", NoneValue)
             response == Stamp(body, ts, etag)
         IN
         IF storeOk /\ container[id] = None
         THEN /\ container' = [container EXCEPT ![id] = Some(response)]
              /\ call' = Call("create_project", id, data, now, container[id],
                              Some(response), FALSE, "")
              /\ UNCHANGED <<published, jwksUri, jwksCache, req>>
         ELSE /\ call' = Call("create_project", id, data, now, container[id],
                              None, FALSE, "CosmosHttpResponseError")
              /\ UNCHANGED <<published, jwksUri, jwksCache, req, container>>

\* Mutant: the updates replace the document instead of being merged into it.
UpdateProjectReplacing(id, updates, now, store, ts, etag) ==
    LET existing == get_project(id, store # "read_fails") IN
    IF existing = None
    THEN /\ call' = Call("update_project", id, updates, now, container[id],
                         None, FALSE, "ValueError")
         /\ UNCHANGED <<published, jwksUri, jwksCache, req, container>>
    ELSE LET updated == SetItem(SerializeDatetimes(updates), "_ts", IntValue(now))
             response == Stamp(updated, ts, etag)
         IN
         IF store = "write_fails"
         THEN /\ call' = Call("update_project", id, updates, now, container[id],
                              None, FALSE, "CosmosHttpResponseError")
              /\ UNCHANGED <<published, jwksUri, jwksCache, req, container>>
         ELSE /\ Str(etag) # existing[1]["_etag"]
              /\ container' = [container EXCEPT ![id] = Some(response)]
              /\ call' = Call("update_project", id, updates, now, container[id],
                              Some(response), FALSE, "")
              /\ UNCHANGED <<published, jwksUri, jwksCache, req>>

\* update_project, lines 172-201: the existing document is read (ValueError
\* when get_project returns None), the updates are merged over it, datetimes
\* are written as strings, _ts is set to the clock's reading and the item is
\* replaced; the response of replace_item, the document as stored (with the
\* service's own _ts and an _etag other than the one it had), is returned. An
\* exception of the container is logged and raised again.
UpdateProject(id, updates, now, store, ts, etag) ==
    LET existing == get_project(id, store # "read_fails") IN
    IF existing = None
    THEN /\ call' = Call("update_project", id, updates, now, container[id],
                         None, FALSE, "ValueError")
         /\ UNCHANGED <<published, jwksUri, jwksCache, req, container>>
    ELSE LET updated == SetItem(SerializeDatetimes(Merge(existing[1], updates)),
                                "_ts", IntValue(now))
             response == Stamp(updated, ts, etag)
         IN
         IF store = "write_fails"
         THEN /\ call' = Call("update_project", id, updates, now, container[id],
                              None, FALSE, "CosmosHttpResponseError")
              /\ UNCHANGED <<published, jwksUri, jwksCache, req, container>>
         ELSE /\ Str(etag) # existing[1]["_etag"]
              /\ container' = [container EXCEPT ![id] = Some(response)]
              /\ call' = Call("update_project", id, updates, now, container[id],
                              Some(response), FALSE, "")
              /\ UNCHANGED <<published, jwksUri, jwksCache, req>>

\* delete_project, lines 203-222: True when the item was deleted, False when
\* there was none or the container failed.
DeleteProject(id, storeOk) ==
    IF storeOk /\ container[id] # None
    THEN /\ container' = [container EXCEPT ![id] = None]
         /\ call' = Call("delete_project", id, EmptyDict, 0, container[id],
                         None, TRUE, "")
         /\ UNCHANGED <<published, jwksUri, jwksCache, req>>
    ELSE /\ call' = Call("delete_project", id, EmptyDict, 0, container[id],
                         None, FALSE, "")
         /\ UNCHANGED <<published, jwksUri, jwksCache, req, container>>

\* ---------------------------------------------------------- the requests
\* A key-set document as resp.json() returns it; jwks.get("keys", []) of a
\* document without the keys array is the empty list.
JwksDoc(keys) == [hasKeys |-> TRUE, keys |-> keys]
NoKeysDoc == [hasKeys |-> FALSE, keys |-> {}]
JwksKeys(doc) == IF doc.hasKeys THEN doc.keys ELSE {}

\* A request: pc is the handler's position; header, token, jwks and key are
\* its locals; phase is 1 up to the cache_clear() of line 47 and 2 after it.
\* The rest records what the validation did: the clock's reading at
\* jwt.decode, the discovery requests sent (nDisc), the key-set requests sent
\* (nJwks; nRefetch of them after the cache_clear), the documents _get_jwks()
\* returned to it (nRead), the cache_clear() calls (nClear), the outcome (out,
\* user) and whether every other request had come in when it started (overlap).
\* The requests are numbered in the order they come in, which is the order
\* the event loop starts their handlers.

NewReq ==
    [pc |-> "new", header |-> AbsentHeader, token |-> EmptyToken, phase |-> 1,
     jwks |-> None, key |-> "", clock |-> 0,
     nDisc |-> 0, nJwks |-> 0, nRefetch |-> 0, nRead |-> 0, nClear |-> 0,
     out |-> Pending, user |-> None, overlap |-> FALSE]

\* Mutant: the handler runs in a thread pool, so validations interleave.
EventLoopFreeThreaded(r) == TRUE

\* The handler holds the event loop from its first line to its return: it
\* starts only when no other validation is between the two.
EventLoopFree(r) ==
    \A q \in Reqs \ {r} : req[q].pc \in {"new", "queued", "done"}

Init ==
    /\ published \in SUBSET Kids
    /\ jwksUri = <<>>
    /\ jwksCache = <<>>
    /\ req = [r \in Reqs |-> NewReq]
    /\ container = [p \in ProjectIds |-> None]
    /\ call = NoCall

\* The validation of r ends: the user dict is returned or the exception leaves.
Finish(r, out, user) ==
    req' = [req EXCEPT ![r].pc = "done", ![r].out = out, ![r].user = user]

\* A request comes in and its handler is scheduled on the event loop.
Arrive(r) ==
    /\ req[r].pc = "new"
    /\ IF r = 1 THEN TRUE ELSE req[r - 1].pc # "new"
    /\ req' = [req EXCEPT ![r].pc = "queued"]
    /\ UNCHANGED <<container, call, published, jwksUri, jwksCache>>

\* Mutant: no check of the prefix (no lines 62-63); whatever follows the
\* scheme is taken for the token.
BeginNoPrefixCheck(r, h) ==
    /\ req[r].pc = "queued"
    /\ IF r = 1 THEN TRUE ELSE req[r - 1].pc # "queued"
    /\ EventLoopFree(r)
    /\ LET waiting == \A q \in Reqs \ {r} : req[q].pc # "new" IN
       req' = [req EXCEPT ![r].pc = "signing_key", ![r].header = h,
                          ![r].overlap = waiting, ![r].token = ExtractToken(h)]
    /\ UNCHANGED <<container, call, published, jwksUri, jwksCache>>

\* get_current_user, lines 61-66: the header check and the token extraction.
Begin(r, h) ==
    /\ req[r].pc = "queued"
    /\ IF r = 1 THEN TRUE ELSE req[r - 1].pc # "queued"
    /\ EventLoopFree(r)
    /\ LET waiting == \A q \in Reqs \ {r} : req[q].pc # "new" IN
       IF ~StartsWithBearer(h)
       THEN req' = [req EXCEPT ![r].pc = "done", ![r].header = h,
                               ![r].overlap = waiting, ![r].out = MissingCredential]
       ELSE req' = [req EXCEPT ![r].pc = "signing_key", ![r].header = h,
                               ![r].overlap = waiting, ![r].token = ExtractToken(h)]
    /\ UNCHANGED <<container, call, published, jwksUri, jwksCache>>

\* Mutant: no check of the kid (no lines 38-39); the lookup runs with None.
ParseHeaderNoKidCheck(r) ==
    /\ req[r].pc = "signing_key"
    /\ IF ~HeaderParses(req[r].token) THEN Finish(r, InvalidToken, None)
       ELSE req' = [req EXCEPT ![r].pc = "get_jwks"]
    /\ UNCHANGED <<container, call, published, jwksUri, jwksCache>>

\* _get_signing_key, lines 36-39: the unverified header and its kid. The
\* DecodeError of an unparseable token is caught at line 103.
ParseHeader(r) ==
    /\ req[r].pc = "signing_key"
    /\ IF ~HeaderParses(req[r].token) THEN Finish(r, InvalidToken, None)
       ELSE IF req[r].token.kid = "" THEN Finish(r, MalformedToken, None)
       ELSE req' = [req EXCEPT ![r].pc = "get_jwks"]
    /\ UNCHANGED <<container, call, published, jwksUri, jwksCache>>

\* Mutant: a filled slot is revalidated against the provider on every read.
CacheHitRevalidating(r) ==
    /\ req[r].pc = "get_jwks"
    /\ jwksCache # <<>>
    /\ req' = [req EXCEPT ![r].pc = "jwks_send"]
    /\ UNCHANGED <<container, call, published, jwksUri, jwksCache>>

\* Mutant: the cached document is returned without the keys the provider no
\* longer publishes.
CacheHitDroppingRemoved(r) ==
    /\ req[r].pc = "get_jwks"
    /\ jwksCache # <<>>
    /\ req' = [req EXCEPT ![r].pc = "lookup",
                          ![r].jwks = Some(JwksDoc(JwksKeys(jwksCache[1]) \cap published)),
                          ![r].nRead = @ + 1]
    /\ UNCHANGED <<container, call, published, jwksUri, jwksCache>>

\* _get_jwks() with its slot filled: the cached document, no I/O.
CacheHit(r) ==
    /\ req[r].pc = "get_jwks"
    /\ jwksCache # <<>>
    /\ req' = [req EXCEPT ![r].pc = "lookup", ![r].jwks = Some(jwksCache[1]),
                          ![r].nRead = @ + 1]
    /\ UNCHANGED <<container, call, published, jwksUri, jwksCache>>

\* _get_jwks() with its slot empty calls _get_jwks_uri(), whose slot is empty
\* too: the discovery request goes out.
DiscoverySend(r) ==
    /\ req[r].pc = "get_jwks"
    /\ jwksCache = <<>>
    /\ jwksUri = <<>>
    /\ req' = [req EXCEPT ![r].pc = "discovery", ![r].nDisc = @ + 1]
    /\ UNCHANGED <<container, call, published, jwksUri, jwksCache>>

\* _get_jwks_uri, lines 22-24: a status other than 200 raises and nothing is
\* cached; otherwise resp.json().get("jwks_uri") is returned and cached, None
\* included.
DiscoveryReturn(r, resp) ==
    /\ req[r].pc = "discovery"
    /\ IF resp = "status"
       THEN Finish(r, DiscoveryUnavailable, None) /\ jwksUri' = jwksUri
       ELSE /\ jwksUri' = <<IF resp = "ok" THEN Some("jwks_uri") ELSE None>>
            /\ req' = [req EXCEPT ![r].pc = "jwks_send"]
           
    /\ UNCHANGED <<container, call, published, jwksCache>>

\* _get_jwks, line 29: requests.get(_get_jwks_uri()). The uri comes from the
\* slot of _get_jwks_uri; requests.get(None) raises before any request is sent.
JwksSend(r) ==
    /\ \/ req[r].pc = "jwks_send"
       \/ req[r].pc = "get_jwks" /\ jwksCache = <<>> /\ jwksUri # <<>>
    /\ IF jwksUri[1] = None
       THEN Finish(r, MissingSchema, None)
       ELSE /\ req' = [req EXCEPT ![r].pc = "jwks_wait", ![r].nJwks = @ + 1,
                                  ![r].nRefetch = IF req[r].phase = 2 THEN @ + 1 ELSE @]
           
    /\ UNCHANGED <<container, call, published, jwksUri, jwksCache>>

\* Mutant: _get_jwks without its lru_cache; the body is returned, not kept.
JwksReturnUncached(r, resp) ==
    /\ req[r].pc = "jwks_wait"
    /\ IF resp = "status"
       THEN Finish(r, KeySetUnavailable, None)
       ELSE LET doc == IF resp = "ok" THEN JwksDoc(published) ELSE NoKeysDoc IN
            req' = [req EXCEPT ![r].pc = "lookup", ![r].jwks = Some(doc),
                               ![r].nRead = @ + 1]
    /\ UNCHANGED <<container, call, published, jwksUri, jwksCache>>

\* Mutant: the fetched keys are merged into the set the validation had read.
JwksReturnMerging(r, resp) ==
    /\ req[r].pc = "jwks_wait"
    /\ IF resp = "status"
       THEN Finish(r, KeySetUnavailable, None) /\ jwksCache' = jwksCache
       ELSE LET old == IF req[r].jwks = None THEN {} ELSE JwksKeys(req[r].jwks[1])
                doc == JwksDoc((IF resp = "ok" THEN published ELSE {}) \cup old)
            IN
            /\ jwksCache' = <<doc>>
            /\ req' = [req EXCEPT ![r].pc = "lookup", ![r].jwks = Some(doc),
                                  ![r].nRead = @ + 1]
    /\ UNCHANGED <<container, call, published, jwksUri>>

\* Mutant: when the fetch fails the set the validation had read is put back.
JwksReturnRestoring(r, resp) ==
    /\ req[r].pc = "jwks_wait"
    /\ IF resp = "status"
       THEN Finish(r, KeySetUnavailable, None) /\ jwksCache' = req[r].jwks
       ELSE LET doc == IF resp = "ok" THEN JwksDoc(published) ELSE NoKeysDoc IN
            /\ jwksCache' = <<doc>>
            /\ req' = [req EXCEPT ![r].pc = "lookup", ![r].jwks = Some(doc),
                                  ![r].nRead = @ + 1]
    /\ UNCHANGED <<container, call, published, jwksUri>>

\* _get_jwks, lines 30-32: a status other than 200 raises and nothing is
\* cached; otherwise the body is returned and becomes the slot's value.
JwksReturn(r, resp) ==
    /\ req[r].pc = "jwks_wait"
    /\ IF resp = "status"
       THEN Finish(r, KeySetUnavailable, None) /\ jwksCache' = jwksCache
       ELSE LET doc == IF resp = "ok" THEN JwksDoc(published) ELSE NoKeysDoc IN
            /\ jwksCache' = <<doc>>
            /\ req' = [req EXCEPT ![r].pc = "lookup", ![r].jwks = Some(doc),
                                  ![r].nRead = @ + 1]
           
    /\ UNCHANGED <<container, call, published, jwksUri>>

\* _get_signing_key, lines 42-44 and 49-51: the kid is in the document.
LookupHit(r) ==
    /\ req[r].pc = "lookup"
    /\ req[r].token.kid \in JwksKeys(req[r].jwks[1])
    /\ req' = [req EXCEPT ![r].pc = "decode", ![r].key = req[r].token.kid]
    /\ UNCHANGED <<container, call, published, jwksUri, jwksCache>>

\* Mutant: the retry without _get_jwks.cache_clear().
RefreshOnMissNoClear(r) ==
    /\ req[r].pc = "lookup"
    /\ req[r].phase = 1
    /\ req[r].token.kid \notin JwksKeys(req[r].jwks[1])
    /\ req' = [req EXCEPT ![r].pc = "get_jwks", ![r].phase = 2]
    /\ UNCHANGED <<container, call, published, jwksUri, jwksCache>>

\* Mutant: the refresh clears the cache of _get_jwks_uri as well.
RefreshOnMissClearsUri(r) ==
    /\ req[r].pc = "lookup"
    /\ req[r].phase = 1
    /\ req[r].token.kid \notin JwksKeys(req[r].jwks[1])
    /\ jwksCache' = <<>>
    /\ jwksUri' = <<>>
    /\ req' = [req EXCEPT ![r].pc = "get_jwks", ![r].phase = 2, ![r].nClear = @ + 1]
    /\ UNCHANGED <<container, call, published>>

\* _get_signing_key, lines 46-48: the first lookup missed; _get_jwks.cache_clear()
\* and _get_jwks() once more.
RefreshOnMiss(r) ==
    /\ req[r].pc = "lookup"
    /\ req[r].phase = 1
    /\ req[r].token.kid \notin JwksKeys(req[r].jwks[1])
    /\ jwksCache' = <<>>
    /\ req' = [req EXCEPT ![r].pc = "get_jwks", ![r].phase = 2, ![r].nClear = @ + 1]
    /\ UNCHANGED <<container, call, published, jwksUri>>

\* Mutant: the miss after the refresh is reported as a bad token.
KeyNotFoundAsInvalidToken(r) ==
    /\ req[r].pc = "lookup"
    /\ req[r].phase = 2
    /\ req[r].token.kid \notin JwksKeys(req[r].jwks[1])
    /\ Finish(r, InvalidToken, None)
    /\ UNCHANGED <<container, call, published, jwksUri, jwksCache>>

\* Mutant: the refetched document is not searched (no lines 49-51).
KeyNotFoundUnsearched(r) ==
    /\ req[r].pc = "lookup"
    /\ req[r].phase = 2
    /\ Finish(r, SigningKeyNotFound, None)
    /\ UNCHANGED <<container, call, published, jwksUri, jwksCache>>

\* Mutant: a miss after the refresh clears the cache and fetches a third time.
KeyNotFoundRetrying(r) ==
    /\ req[r].pc = "lookup"
    /\ req[r].phase = 2
    /\ req[r].token.kid \notin JwksKeys(req[r].jwks[1])
    /\ IF req[r].nClear < 2
       THEN /\ jwksCache' = <<>>
            /\ req' = [req EXCEPT ![r].pc = "get_jwks", ![r].nClear = @ + 1]
       ELSE Finish(r, SigningKeyNotFound, None) /\ jwksCache' = jwksCache
    /\ UNCHANGED <<container, call, published, jwksUri>>

\* _get_signing_key, line 53: the lookup after the refresh missed too.
KeyNotFound(r) ==
    /\ req[r].pc = "lookup"
    /\ req[r].phase = 2
    /\ req[r].token.kid \notin JwksKeys(req[r].jwks[1])
    /\ Finish(r, SigningKeyNotFound, None)
    /\ UNCHANGED <<container, call, published, jwksUri, jwksCache>>

\* get_current_user, lines 71-104: jwt.decode at the clock's reading now, the
\* user dict on success, the except clauses otherwise.
Decode(r, now) ==
    /\ req[r].pc = "decode"
    /\ LET out == DecodeOutcome(req[r].token, req[r].key, now) IN
       /\ req' = [req EXCEPT ![r].pc = "done", ![r].clock = now, ![r].out = out,
                             ![r].user = IF out = Accepted
                                         THEN Some(UserDict(req[r].token.payload))
                                         ELSE None]
    /\ UNCHANGED <<container, call, published, jwksUri, jwksCache>>

\* The provider rotates its keys: it publishes another set.
Rotate(keys) ==
    /\ keys # published
    /\ published' = keys
    /\ UNCHANGED <<container, call, jwksUri, jwksCache, req>>

\* What the client of /protected gets (Depends(get_current_user)): the
\* endpoint's body on a return; the status and detail of an HTTPException; the
\* framework's 500 for any other exception that leaves the dependency.
Response(out) ==
    IF out.kind = "return" THEN [status |-> 200, body |-> "message, roles"]
    ELSE IF out.kind = "HTTPException" THEN [status |-> 401, body |-> out.detail]
    ELSE [status |-> 500, body |-> "Internal Server Error"]

\* get_graphql_context did not call get_current_user (main.py line 93 false).
NotCalled == [kind |-> "not called", detail |-> ""]

\* The value of get_graphql_context's parameter `request`: None (the
\* default), a str, or a Request object.
RequestNone == [type |-> "NoneType", value |-> ""]
RequestStr(s) == [type |-> "str", value |-> s]
RequestObject == [type |-> "Request", value |-> ""]

\* The first conjunct of line 93, `request`: None and "" are falsy.
RequestTruthy(request) ==
    \/ request.type = "Request"
    \/ request.type = "str" /\ request.value # ""

\* request.headers on a str (line 93): raised inside the try of line 92, so
\* get_current_user is not reached.
AttributeError == [kind |-> "AttributeError", detail |-> "'str' object has no attribute 'headers'"]

\* request.headers.get("Authorization") is truthy: the header is there and
\* is not the empty string.
HeaderTruthy(h) == h # AbsentHeader

\* get_graphql_context, lines 92-94, for the value `request` of its parameter
\* and the Authorization header h the client sent. get_current_user is awaited
\* (and then starts as Begin) only when the parameter is a Request whose
\* header is truthy; a falsy parameter ends line 93 at once; a non-empty str
\* has no .headers. In either of the last two cases h is never read.
ContextBegin(r, request, h) ==
    IF request.type = "Request" /\ HeaderTruthy(h)
    THEN Begin(r, h)
    ELSE /\ req[r].pc = "queued"
         /\ IF r = 1 THEN TRUE ELSE req[r - 1].pc # "queued"
         /\ EventLoopFree(r)
         /\ req' = [req EXCEPT ![r].pc = "done", ![r].header = h,
                               ![r].out = IF request.type = "str" /\ RequestTruthy(request)
                                          THEN AttributeError ELSE NotCalled]
         /\ UNCHANGED <<container, call, published, jwksUri, jwksCache>>

\* The dict of lines 85-89: the two service globals and demo_mode.
BaseContext(storage, cosmos) ==
    [storage_service |-> storage, cosmos_service |-> cosmos,
     demo_mode |-> (storage = None \/ cosmos = None)]

\* What get_graphql_context returns (line 102) once get_current_user, if it
\* was called, has ended with out: the user dict is stored under "user" on a
\* return (line 95), any exception is swallowed (lines 96-100).
GraphqlContext(storage, cosmos, out, user) ==
    IF out.kind = "return"
    THEN [k \in {"storage_service", "cosmos_service", "demo_mode", "user"} |->
            IF k = "user" THEN user[1] ELSE BaseContext(storage, cosmos)[k]]
    ELSE BaseContext(storage, cosmos)

\* ------------------------------------------------------------- the inputs
DiscoveryResponses == {"ok", "nofield", "status"}
JwksResponses == {"ok", "nokeys", "status"}

DefaultPayload ==
    Payload(Some(1), Some(Issuer), {AZURE_AD_AUDIENCE},
            Some("alice@example.com"), None, None, Some("oid-1"), None, None)
ValidToken(kid) == Jwt(kid, "RS256", kid, DefaultPayload)

\* The requests of the running service: tokens of either key and a header of
\* another scheme.
ServiceHeaders ==
    {Bearer(ValidToken(k)) : k \in Kids} \cup {Header("Basic", 1, Garbage, 0)}

\* Tokens that differ in what the signature and the registered claims say.
KeyTokens ==
    {Jwt(kid, alg, signer,
         Payload(exp, iss, aud, Some("alice@example.com"), None, None, None, None, None)) :
        kid \in {"", "k1"}, alg \in {"RS256", "HS256"}, signer \in {"k1", "forged"},
        exp \in {None, Some(1)},
        iss \in {None, Some(Issuer), Some("https://evil.example.com/v2.0")},
        aud \in {{}, {AZURE_AD_AUDIENCE}, {"api://other"},
                 {AZURE_AD_AUDIENCE, "api://other"}}}

\* Valid tokens that differ in the claims the user dict is built from.
ClaimTokens ==
    {Jwt("k1", "RS256", "k1",
         Payload(Some(1), Some(Issuer), {AZURE_AD_AUDIENCE}, pu, upn, email, oid, roles, scp)) :
        pu \in {None, Some(""), Some("alice@example.com")},
        upn \in {None, Some("alice@corp")},
        email \in {None, Some("alice@mail")},
        oid \in {None, Some("oid-1")},
        roles \in {None, Some(<<>>), Some(<<"Admin">>)},
        scp \in {None, Some(<<>>), Some(<<"read", " ", "write">>)}}

\* The forms of the Authorization header.
HeaderForms ==
    {AbsentHeader,
     Header("Basic", 1, Garbage, 0),
     Header("bearer", 1, ValidToken("k1"), 0),
     Header("Bearer", 0, EmptyToken, 0),
     Header("Bearer", 0, ValidToken("k1"), 0),
     Header("Bearer", 1, EmptyToken, 0),
     Header("Bearer", 3, EmptyToken, 0),
     Header("Bearer", 1, Garbage, 0),
     Header("Bearer", 2, ValidToken("k1"), 1),
     Bearer(ValidToken("k2"))}

ValidatorHeaders ==
    HeaderForms \cup {Bearer(t) : t \in KeyTokens \cup ClaimTokens}

\* Requests that fail for different reasons of the token itself: one that is
\* no JWT, one without a kid, one whose signature was made by another key.
FailureHeaders ==
    {Bearer(Garbage),
     Bearer(Jwt("", "RS256", "k1", DefaultPayload)),
     Bearer(Jwt("k1", "RS256", "forged", DefaultPayload))}

\* The reading of the caller's clock that line 188 puts in the body's _ts.
StoreTimes == {1}
StoreAnswers == {"ok", "read_fails", "write_fails"}
\* The readings of the service's clock and the entity tags it issues.
ServerTimes == {3, 4}
Etags == {"etag-a", "etag-b"}

\* The project of the test script, and a dict without the id.
TestProject(id) ==
    [id |-> Str(id), name |-> Str("Test Project"), status |-> Str("PLANNING"),
     updated_at |-> DateTime(0)]
ProjectData ==
    {TestProject(id) : id \in ProjectIds} \cup {[name |-> Str("Test Project")]}

\* The updates: a new status, a new updated_at, a field the document did not
\* have, and a value for _ts.
UpdateFields == {"status", "updated_at", "actual_completion", "_ts"}
UpdateValue(k) ==
    CASE k = "status" -> Str("IN_PROGRESS")
      [] k = "updated_at" -> DateTime(1)
      [] k = "actual_completion" -> DateTime(2)
      [] k = "_ts" -> IntValue(0)
\* The update of the test script (status and updated_at) among them.
UpdateKeys ==
    {{}, {"status"}, {"status", "updated_at"}, {"actual_completion"}, {"_ts"},
     UpdateFields}
UpdateDicts == {[k \in ks |-> UpdateValue(k)] : ks \in UpdateKeys}

\* --------------------------------------------------------- specifications
\* The service: the requests of Reqs, in flight together.
Next ==
    \/ \E r \in Reqs : Arrive(r)
    \/ \E r \in Reqs, h \in ServiceHeaders : Begin(r, h)
    \/ \E r \in Reqs : ParseHeader(r)
    \/ \E r \in Reqs : CacheHit(r)
    \/ \E r \in Reqs : DiscoverySend(r)
    \/ \E r \in Reqs, resp \in DiscoveryResponses : DiscoveryReturn(r, resp)
    \/ \E r \in Reqs : JwksSend(r)
    \/ \E r \in Reqs, resp \in JwksResponses : JwksReturn(r, resp)
    \/ \E r \in Reqs : LookupHit(r)
    \/ \E r \in Reqs : RefreshOnMiss(r)
    \/ \E r \in Reqs : KeyNotFound(r)
    \/ \E r \in Reqs, now \in Times : Decode(r, now)
    \/ \E keys \in SUBSET Kids : Rotate(keys)

Spec == Init /\ [][Next]_vars

\* One validation, of any header and token, in any state earlier validations
\* can have left the two caches in.
InitValidator ==
    /\ published \in SUBSET Kids
    /\ jwksUri \in {<<>>, <<None>>, <<Some("jwks_uri")>>}
    /\ jwksCache \in {<<>>} \cup {<<JwksDoc(keys)>> : keys \in SUBSET Kids}
                         \cup {<<NoKeysDoc>>}
    /\ jwksCache # <<>> => jwksUri = <<Some("jwks_uri")>>
    /\ req = [r \in Reqs |-> NewReq]
    /\ container = [p \in ProjectIds |-> None]
    /\ call = NoCall

NextValidator ==
    \/ Arrive(1)
    \/ \E h \in ValidatorHeaders : Begin(1, h)
    \/ ParseHeader(1)
    \/ CacheHit(1)
    \/ DiscoverySend(1)
    \/ \E resp \in DiscoveryResponses : DiscoveryReturn(1, resp)
    \/ JwksSend(1)
    \/ \E resp \in JwksResponses : JwksReturn(1, resp)
    \/ LookupHit(1)
    \/ RefreshOnMiss(1)
    \/ KeyNotFound(1)
    \/ \E now \in Times : Decode(1, now)
    \/ \E keys \in SUBSET Kids : Rotate(keys)

SpecValidator == InitValidator /\ [][NextValidator]_vars

\* The service receiving the failing requests.
NextFailures ==
    \/ \E r \in Reqs : Arrive(r)
    \/ \E r \in Reqs, h \in FailureHeaders : Begin(r, h)
    \/ \E r \in Reqs : ParseHeader(r)
    \/ \E r \in Reqs : CacheHit(r)
    \/ \E r \in Reqs : DiscoverySend(r)
    \/ \E r \in Reqs, resp \in DiscoveryResponses : DiscoveryReturn(r, resp)
    \/ \E r \in Reqs : JwksSend(r)
    \/ \E r \in Reqs, resp \in JwksResponses : JwksReturn(r, resp)
    \/ \E r \in Reqs : LookupHit(r)
    \/ \E r \in Reqs : RefreshOnMiss(r)
    \/ \E r \in Reqs : KeyNotFound(r)
    \/ \E r \in Reqs, now \in Times : Decode(r, now)
    \/ \E keys \in SUBSET Kids : Rotate(keys)

SpecFailures == Init /\ [][NextFailures]_vars

\* A step of the one validation. The handler is straight-line code: the
\* interpreter runs each step, and each requests.get has timeout=10, so an
\* answer or an error comes back. The provider's rotations are not forced.
ValidationStep ==
    \/ Arrive(1)
    \/ \E h \in ServiceHeaders \cup FailureHeaders : Begin(1, h)
    \/ ParseHeader(1)
    \/ CacheHit(1)
    \/ DiscoverySend(1)
    \/ \E resp \in DiscoveryResponses : DiscoveryReturn(1, resp)
    \/ JwksSend(1)
    \/ \E resp \in JwksResponses : JwksReturn(1, resp)
    \/ LookupHit(1)
    \/ RefreshOnMiss(1)
    \/ KeyNotFound(1)
    \/ \E now \in Times : Decode(1, now)

NextValidation ==
    \/ ValidationStep
    \/ \E keys \in SUBSET Kids : Rotate(keys)

\* One validation, of a request of the service or a failing one, that runs
\* to its end.
SpecValidation == InitValidator /\ [][NextValidation]_vars /\ WF_vars(ValidationStep)

\* The Authorization headers of GraphQL requests: any of the service's
\* headers, a failing one, no header, or one that is no bearer credential.
GraphqlHeaders ==
    ServiceHeaders \cup FailureHeaders
        \cup {AbsentHeader, Header("Bearer", 0, EmptyToken, 0), Header("Bearer", 1, EmptyToken, 0)}

\* What the framework passes for `request`. GraphQLRouter resolves
\* context_getter as a FastAPI dependency (line 107), and the parameter of
\* line 83 has no annotation: it is bound to the optional query parameter
\* "request" (None without it, its string with ?request=...), never to the
\* Request object.
BoundRequests == {RequestNone, RequestStr(""), RequestStr("abc")}

\* The values of the globals storage_service and cosmos_service: None until
\* lifespan has constructed them.
ServiceValues == {None, Some("service")}

NextGraphql ==
    \/ \E r \in Reqs : Arrive(r)
    \/ \E r \in Reqs, request \in BoundRequests, h \in GraphqlHeaders :
            ContextBegin(r, request, h)
    \/ \E keys \in SUBSET Kids : Rotate(keys)

\* The GraphQL requests of the service, in any state earlier validations can
\* have left the two caches in.
SpecGraphql == InitValidator /\ [][NextGraphql]_vars

\* The project store: the calls of CosmosDBService, one after another.
NextProjects ==
    \/ \E id \in ProjectIds, readOk \in BOOLEAN : GetProject(id, readOk)
    \/ \E data \in ProjectData, now \in StoreTimes, storeOk \in BOOLEAN,
          ts \in ServerTimes, etag \in Etags :
            CreateProject(data, now, storeOk, ts, etag)
    \/ \E id \in ProjectIds, updates \in UpdateDicts, now \in StoreTimes,
          store \in StoreAnswers, ts \in ServerTimes, etag \in Etags :
            UpdateProject(id, updates, now, store, ts, etag)
    \/ \E id \in ProjectIds, storeOk \in BOOLEAN : DeleteProject(id, storeOk)

InitProjects ==
    /\ published = {}
    /\ jwksUri = <<>>
    /\ jwksCache = <<>>
    /\ req = [r \in Reqs |-> NewReq]
    /\ container = [p \in ProjectIds |-> None]
    /\ call = NoCall

SpecProjects == InitProjects /\ [][NextProjects]_vars

\* ------------------------------------------------------------ the claims
Done(r) == req[r].pc = "done"
Kid(r) == req[r].token.kid
\* The key-set requests the validations sent, all together.
RECURSIVE JwksFetches(_)
JwksFetches(n) == IF n = 0 THEN 0 ELSE req[n].nJwks + JwksFetches(n - 1)

\* The kid is in neither of the two documents the validation read: the one it
\* found first (phase 2 is entered on that miss) and the refetched one.
KeyAbsent(r) ==
    /\ Done(r)
    /\ req[r].phase = 2
    /\ req[r].nRead = 2
    /\ Kid(r) \notin JwksKeys(req[r].jwks[1])

\* C1: a validation whose token's kid is in neither the key set it found
\* first nor the refetched one fails with SigningKeyNotFound, after exactly one
\* cache_clear() followed by exactly one key-set request.
C1_AbsentKeyOneRefresh ==
    \A r \in Reqs :
        KeyAbsent(r) =>
            /\ req[r].out = SigningKeyNotFound
            /\ req[r].user = None
            /\ req[r].nClear = 1
            /\ req[r].nRefetch = 1

\* C1's case is reached.
C1_Witness ==
    \E r \in Reqs :
        KeyAbsent(r) /\ req[r].out = SigningKeyNotFound /\ req[r].nRefetch = 1

\* r validates the token that the validation just before it rejected with
\* SigningKeyNotFound; nothing invalidated the cache in between.
AgainAfterNotFound(q, r) ==
    /\ r = q + 1
    /\ Done(q) /\ req[q].out = SigningKeyNotFound
    /\ Done(r) /\ req[r].header = req[q].header

\* C2 as stated: after a validation failed with SigningKeyNotFound, the next
\* validation of the same token performs no key-set refresh.
C2_NoFurtherRefresh ==
    \A q, r \in Reqs :
        AgainAfterNotFound(q, r) => req[r].nClear = 0 /\ req[r].nJwks = 0

\* C2, amended: the failure is not remembered; the next validation of the same
\* token reads the cached set, misses, and again performs exactly one
\* cache_clear() and one key-set request.
C2_RefreshesAgain ==
    \A q, r \in Reqs :
        AgainAfterNotFound(q, r) =>
            /\ req[r].nClear = 1
            /\ req[r].nRefetch = 1
            /\ req[r].nJwks = 1
            /\ req[r].nDisc = 0

\* C2's case is reached.
C2_Witness ==
    \E q, r \in Reqs :
        AgainAfterNotFound(q, r) /\ req[r].nRefetch = 1
            /\ req[r].out = SigningKeyNotFound

\* While a key-set request is outstanding no other validation is running: the
\* other requests in flight wait for the handler that sent it.
OthersWait ==
    \A r \in Reqs :
        req[r].pc = "jwks_wait" =>
            \A q \in Reqs \ {r} : req[q].pc \in {"new", "queued", "done"}

\* The validation ended in a failure of the provider's endpoints.
UpstreamFailure(r) == req[r].out.kind \in {"RuntimeError", "MissingSchema"}

\* The validations were all in flight when the first started (the caches
\* empty), their tokens share one kid, and all have completed, none of them
\* on a failure of the provider's endpoints.
ConcurrentSameKid ==
    /\ \A r \in Reqs : Done(r) /\ req[r].header.scheme = "Bearer"
    /\ \A r \in Reqs : ~UpstreamFailure(r)
    /\ \A r \in Reqs : Kid(r) = Kid(1) /\ Kid(r) # ""
    /\ req[1].overlap

\* The first key-set fetch succeeded and its document holds the shared kid.
FirstFetchHasKid ==
    /\ req[1].nJwks = 1
    /\ req[1].nRead = 1
    /\ Kid(1) \in JwksKeys(req[1].jwks[1])

\* C3 as stated: concurrent validations of tokens sharing one kid against the
\* empty cache issue exactly one key-set fetch in total, never two at a time
\* (read with the provider's endpoints answering).
C3_ExactlyOneFetch ==
    /\ OthersWait
    /\ ConcurrentSameKid => JwksFetches(MaxReqs) = 1

\* C3, amended: that holds when the first key-set fetch returns a set with the
\* shared kid; the later validations then read the cached
\* document and send nothing.
C3_OneFetchWhenKeyPublished ==
    /\ OthersWait
    /\ (ConcurrentSameKid /\ FirstFetchHasKid) =>
            /\ JwksFetches(MaxReqs) = 1
            /\ \A r \in Reqs \ {1} : req[r].nJwks = 0 /\ req[r].nRead = 1

\* C3's case is reached.
C3_Witness ==
    /\ ConcurrentSameKid
    /\ FirstFetchHasKid
    /\ JwksFetches(MaxReqs) = 1
    /\ \A r \in Reqs : req[r].key = Kid(1)

\* r validates the token that the validation just before it accepted, and the
\* token has not expired at r's reading of the clock.
ValidTwice(q, r) ==
    /\ r = q + 1
    /\ Done(q) /\ req[q].out = Accepted
    /\ Done(r) /\ req[r].header = req[q].header
    /\ LET exp == req[r].token.payload.exp IN exp = None \/ exp[1] > req[r].clock

\* C4 as stated: the two validations return the same claim set and send at
\* most one network request between them.
C4_AtMostOneFetch ==
    \A q, r \in Reqs :
        ValidTwice(q, r) =>
            /\ req[r].out = Accepted /\ req[r].user = req[q].user
            /\ req[q].nDisc + req[q].nJwks + req[r].nDisc + req[r].nJwks <= 1

\* C4, amended: the two validations return the same claim set and the second
\* sends nothing; the first sends at most one discovery request and at most two
\* key-set requests.
C4_SecondFromCache ==
    \A q, r \in Reqs :
        ValidTwice(q, r) =>
            /\ req[r].out = Accepted /\ req[r].user = req[q].user
            /\ req[r].nDisc = 0 /\ req[r].nJwks = 0 /\ req[r].nClear = 0
            /\ req[q].nDisc <= 1 /\ req[q].nJwks <= 2

\* C4's case is reached.
C4_Witness ==
    \E q, r \in Reqs :
        /\ ValidTwice(q, r)
        /\ req[r].out = Accepted /\ req[r].user = req[q].user
        /\ req[q].nDisc = 1 /\ req[q].nJwks = 1
        /\ req[r].nJwks = 0

\* The signing key was resolved from the key set and the token's RS256
\* signature verifies against it: jwt.decode gets to the claims.
SignatureValid(r) ==
    /\ Done(r)
    /\ req[r].key # ""
    /\ req[r].token.alg = "RS256"
    /\ req[r].token.signer = req[r].key

Claims(r) == req[r].token.payload
ExpiryPast(r) == Claims(r).exp # None /\ Claims(r).exp[1] < req[r].clock
ExpiryFuture(r) == Claims(r).exp # None /\ Claims(r).exp[1] > req[r].clock
IssuerValid(r) == Claims(r).iss = Some(AZURE_AD_AUTHORITY \o "/v2.0")
AudienceValid(r) == Claims(r).aud = {AZURE_AD_AUDIENCE}
AudienceMismatch(r) == Claims(r).aud # {} /\ AZURE_AD_AUDIENCE \notin Claims(r).aud

\* C5: a token whose signature verifies and whose expiry is in the past is
\* rejected with TokenExpired, whatever its audience and issuer, valid ones
\* included.
C5_ExpiredRejected ==
    \A r \in Reqs :
        (SignatureValid(r) /\ ExpiryPast(r)) =>
            req[r].out = TokenExpired /\ req[r].user = None

\* C5's case is reached.
C5_Witness ==
    \E r \in Reqs :
        /\ SignatureValid(r) /\ ExpiryPast(r)
        /\ IssuerValid(r) /\ AudienceValid(r)
        /\ req[r].out = TokenExpired

\* C6: a token whose signature verifies, which has not expired and whose
\* issuer is the expected one, but whose audience claim is not the configured
\* audience, is rejected with InvalidAudience.
C6_AudienceMismatchRejected ==
    \A r \in Reqs :
        (SignatureValid(r) /\ ExpiryFuture(r) /\ IssuerValid(r) /\ AudienceMismatch(r)) =>
            req[r].out = InvalidAudience /\ req[r].user = None

\* C6's case is reached.
C6_Witness ==
    \E r \in Reqs :
        /\ SignatureValid(r) /\ ExpiryFuture(r) /\ IssuerValid(r)
        /\ Claims(r).aud = {"api://other"}
        /\ req[r].out = InvalidAudience

\* C7: a token signed by a key of the fetched key set, with the configured
\* audience, the issuer {authority}/v2.0 and an expiry in the future, is
\* accepted, and the display identity returned is its preferred_username claim.
C7_ValidTokenAccepted ==
    \A r \in Reqs :
        (/\ SignatureValid(r) /\ ExpiryFuture(r)
         /\ IssuerValid(r) /\ AudienceValid(r)
         /\ TruthyStr(Claims(r).preferred_username)) =>
            /\ req[r].out = Accepted
            /\ req[r].user # None
            /\ req[r].user[1].preferred_username = Claims(r).preferred_username
            /\ req[r].user[1].claims = Claims(r)

\* C7's case is reached.
C7_Witness ==
    \E r \in Reqs :
        /\ SignatureValid(r) /\ ExpiryFuture(r)
        /\ IssuerValid(r) /\ AudienceValid(r)
        /\ Claims(r).oid # None /\ Claims(r).upn # None
        /\ req[r].nJwks >= 1
        /\ req[r].out = Accepted
        /\ req[r].user[1].preferred_username = Some("alice@example.com")

\* C8: a header that does not begin with the scheme Bearer, spelled so, and
\* a blank (absent, another scheme, lower case, no blank) is rejected with
\* MissingCredential, before anything else is done.
C8_NoBearerPrefixRejected ==
    \A r \in Reqs :
        (Done(r) /\ ~(req[r].header.scheme = "Bearer" /\ req[r].header.sep > 0)) =>
            /\ req[r].out = MissingCredential
            /\ req[r].nDisc = 0 /\ req[r].nJwks = 0 /\ req[r].nRead = 0

\* C8's case is reached.
C8_Witness ==
    \E r \in Reqs :
        /\ Done(r)
        /\ req[r].header.scheme = "bearer"
        /\ req[r].header.cred.form = "jwt"
        /\ req[r].out = MissingCredential

\* C9: a Bearer header with no token after the scheme (nothing, or blanks
\* only) is rejected with MissingCredential, _get_signing_key not entered.
C9_EmptyTokenMissingCredential ==
    \A r \in Reqs :
        (/\ Done(r)
         /\ req[r].header.scheme = "Bearer" /\ req[r].header.sep > 0
         /\ req[r].header.cred.form = "empty") =>
            req[r].out = MissingCredential

\* C10: the roles returned are the roles claim when the token has one, else
\* the words of its scp claim when it has one, else the empty list.
C10_RolesFromClaimElseScope ==
    \A r \in Reqs :
        (Done(r) /\ req[r].out = Accepted) =>
            req[r].user[1].roles =
                IF TruthySeq(Claims(r).roles) THEN Claims(r).roles[1]
                ELSE IF TruthySeq(Claims(r).scp) THEN Split(Claims(r).scp[1])
                ELSE <<>>

\* The claims the display identity is looked for in, in the order of the chain.
IdentityFields(r) ==
    <<Claims(r).preferred_username, Claims(r).upn, Claims(r).email, Claims(r).oid>>
Validated(r) == Done(r) /\ req[r].out = Accepted
Identity(r) == req[r].user[1].preferred_username

\* C11 as stated: the display identity of a validated token is the value of
\* the first of preferred_username, upn, email, oid that the token has; an
\* earlier claim the token has is never skipped for a later one.
C11_FirstPresent ==
    \A r \in Reqs :
        Validated(r) =>
            \A i \in 1..4 :
                (/\ IdentityFields(r)[i] # None
                 /\ \A j \in 1..(i - 1) : IdentityFields(r)[j] = None) =>
                    Identity(r) = IdentityFields(r)[i]

\* C11, amended: the display identity is the value of the first of the four
\* claims that the token has with a non-empty value; a claim the token has
\* with the empty string as its value is skipped like a claim it lacks. When
\* none has a non-empty value the identity is what the token has for oid.
C11_FirstNonEmpty ==
    \A r \in Reqs :
        Validated(r) =>
            /\ \A i \in 1..4 :
                (/\ TruthyStr(IdentityFields(r)[i])
                 /\ \A j \in 1..(i - 1) : ~TruthyStr(IdentityFields(r)[j])) =>
                    Identity(r) = IdentityFields(r)[i]
            /\ (\A i \in 1..4 : ~TruthyStr(IdentityFields(r)[i])) =>
                    Identity(r) = Claims(r).oid

\* C11's case is reached.
C11_Witness ==
    \E r \in Reqs :
        /\ Validated(r)
        /\ Claims(r).preferred_username = Some("")
        /\ Claims(r).upn = Some("alice@corp")
        /\ Claims(r).email # None
        /\ Identity(r) = Some("alice@corp")

\* jwt.decode was called with a key resolved from the key set.
KeyResolved(r) == Done(r) /\ req[r].key # ""

\* C12: a token whose header declares an algorithm other than RS256 (HS256,
\* say) is never accepted by a verification against a key resolved from the
\* key set, whatever made its signature and whatever its claims: it is
\* rejected and no user is returned.
C12_OnlyRS256Accepted ==
    \A r \in Reqs :
        (KeyResolved(r) /\ req[r].token.alg # "RS256") =>
            /\ req[r].out # Accepted
            /\ req[r].out.kind = "HTTPException"
            /\ req[r].user = None

\* C12's case is reached: an HS256 token made with the resolved key's
\* material and carrying valid claims.
C12_Witness ==
    \E r \in Reqs :
        /\ KeyResolved(r)
        /\ req[r].token.alg = "HS256"
        /\ req[r].token.signer = req[r].key
        /\ ExpiryFuture(r) /\ IssuerValid(r) /\ AudienceValid(r)
        /\ req[r].out = InvalidToken

\* The validation of r ended in a failure.
Failed(r) == Done(r) /\ req[r].out # Accepted

\* C13: every failure of a validation gives the client the same response: the
\* status is 401 and the body is the same whichever check failed.
C13_UniformUnauthorized ==
    \A q, r \in Reqs :
        (Failed(q) /\ Failed(r)) =>
            /\ Response(req[r].out).status = 401
            /\ Response(req[q].out) = Response(req[r].out)

\* The failure kind of the taxonomy that a failed validation ran into, from
\* what it was given and what it found; the failures of the claims' checks
\* are taken as the code names them.
FailureKind(r) ==
    IF ~(req[r].header.scheme = "Bearer" /\ req[r].header.sep > 0)
    THEN "MissingCredential"
    ELSE IF req[r].token.form # "jwt" \/ req[r].token.kid = "" THEN "MalformedToken"
    ELSE IF req[r].out \in {DiscoveryUnavailable, MissingSchema} THEN "DiscoveryUnavailable"
    ELSE IF req[r].out = KeySetUnavailable THEN "KeySetUnavailable"
    ELSE IF req[r].key = "" THEN "SigningKeyNotFound"
    ELSE IF req[r].token.alg # "RS256" \/ req[r].token.signer # req[r].key
    THEN "InvalidSignature"
    ELSE req[r].out.detail

\* C14: two validations that fail with different failure kinds leave
\* get_current_user with different reasons (exception and detail), and no
\* failure leaves it as the "Invalid token" of the catch-all except clause.
C14_DistinctReasons ==
    \A q, r \in Reqs :
        (Failed(q) /\ Failed(r)) =>
            /\ FailureKind(q) # FailureKind(r) => req[q].out # req[r].out
            /\ req[r].out # InvalidToken

\* The validation sent the discovery request and ended without a key-set
\* request: the discovery answer was no success, or had no jwks_uri.
DiscoveryFailed(r) == Done(r) /\ req[r].nDisc = 1 /\ req[r].nJwks = 0

\* C15: a validation whose discovery request is not answered with success, or
\* is answered with a document without jwks_uri, fails with
\* DiscoveryUnavailable; the request was sent once, and the failure is that
\* validation's alone: nothing of it stays in the cache of _get_jwks_uri.
C15_DiscoveryUnavailable ==
    DiscoveryFailed(1) =>
        /\ req[1].out = DiscoveryUnavailable
        /\ req[1].user = None
        /\ jwksUri = <<>>

\* The last key-set request of the validation was not answered with success:
\* _get_jwks() returned fewer documents than it was called for.
KeySetFetchFailed(r) ==
    Done(r) /\ req[r].nJwks >= 1 /\ req[r].nRead < req[r].phase

\* The last key-set request of the validation was answered with a JSON body
\* that has no keys array.
KeySetMalformed(r) ==
    /\ Done(r) /\ req[r].nJwks >= 1 /\ req[r].nRead = req[r].phase
    /\ req[r].jwks = Some(NoKeysDoc)

\* C16: a validation whose key-set request is not answered with success, or
\* is answered with a body that is no well-formed key-set document, fails
\* with KeySetUnavailable and with no other kind.
C16_KeySetUnavailable ==
    (KeySetFetchFailed(1) \/ KeySetMalformed(1)) =>
        req[1].out = KeySetUnavailable /\ req[1].user = None

\* The validation found a cached key set without its token's kid, and the
\* set it then fetched from the provider has the kid.
RotatedSince(r) ==
    /\ Done(r)
    /\ req[r].phase = 2
    /\ req[r].nRead = 2 /\ req[r].nJwks = 1
    /\ Kid(r) \in JwksKeys(req[r].jwks[1])

\* C17: a validation that finds the cached key set without its token's kid,
\* while the set the provider publishes has it, clears the cache once, sends
\* one key-set request and resolves the key from the refetched set: it does
\* not end in SigningKeyNotFound, and a valid unexpired token is accepted.
C17_RotationRecovery ==
    \A r \in Reqs :
        RotatedSince(r) =>
            /\ req[r].nClear = 1 /\ req[r].nRefetch = 1 /\ req[r].nDisc = 0
            /\ req[r].key = Kid(r)
            /\ req[r].out # SigningKeyNotFound
            /\ (SignatureValid(r) /\ ExpiryFuture(r) /\ IssuerValid(r) /\ AudienceValid(r)) =>
                    req[r].out = Accepted

\* C17's case is reached: the first validation cached the set with k1 alone,
\* the second brings a token of the key k2 published since.
C17_Witness ==
    /\ req[1].out = Accepted /\ req[1].key = "k1"
    /\ req[1].jwks = Some(JwksDoc({"k1"}))
    /\ RotatedSince(2)
    /\ Kid(2) = "k2"
    /\ req[2].out = Accepted

\* The last call was an update_project of an existing project that returned.
Updated == call.op = "update_project" /\ call.before # None /\ call.ret # None

\* The properties of a stored document that the container's service writes.
SystemProperties == {"_rid", "_self", "_etag", "_attachments", "_ts"}

NoKid(r) ==
    /\ Done(r)
    /\ req[r].header.scheme = "Bearer" /\ req[r].header.sep > 0
    /\ req[r].token.form = "jwt"
    /\ Kid(r) = ""

\* C19: a token whose unverified header has no kid is rejected with
\* MalformedToken (401 "Invalid token header") before _get_jwks() is called:
\* the validation read no key set, cached or fetched, sent no request and
\* cleared nothing.
C19_NoKidRejectedEarly ==
    \A r \in Reqs :
        NoKid(r) =>
            /\ req[r].out = MalformedToken
            /\ req[r].user = None
            /\ req[r].nRead = 0 /\ req[r].nDisc = 0 /\ req[r].nJwks = 0
            /\ req[r].nClear = 0
            /\ req[r].jwks = None /\ req[r].key = ""

\* C19's case is reached: a token without kid, otherwise valid, with a key
\* set in the cache.
C19_Witness ==
    \E r \in Reqs :
        /\ NoKid(r)
        /\ jwksCache # <<>>
        /\ req[r].token.alg = "RS256" /\ req[r].token.signer = "k1"
        /\ IssuerValid(r) /\ AudienceValid(r)
        /\ req[r].out = MalformedToken

\* The token carries the three claims the checks read.
HasClaims(r) ==
    Claims(r).exp # None /\ Claims(r).iss # None /\ Claims(r).aud # {}
IssuerMismatch(r) == Claims(r).iss # None /\ ~IssuerValid(r)

\* C20 as stated: after the signature the checks run in the order expiry,
\* audience, issuer and the rejection is that of the first that fails: an
\* expired token is rejected with TokenExpired whatever its audience; an
\* unexpired one with a wrong audience with InvalidAudience, its issuer wrong
\* or not; an unexpired one with the right audience and a wrong issuer with
\* InvalidIssuer.
C20_AudienceBeforeIssuer ==
    \A r \in Reqs :
        (SignatureValid(r) /\ HasClaims(r)) =>
            /\ ExpiryPast(r) => req[r].out = TokenExpired
            /\ (ExpiryFuture(r) /\ AudienceMismatch(r)) =>
                    req[r].out = InvalidAudience
            /\ (ExpiryFuture(r) /\ ~AudienceMismatch(r) /\ IssuerMismatch(r)) =>
                    req[r].out = InvalidIssuer

\* C20, amended: the order is signature, expiry, issuer, audience. An expired
\* token is rejected with TokenExpired whatever its audience and issuer; an
\* unexpired one with a wrong issuer with InvalidIssuer, its audience wrong or
\* not; an unexpired one with the right issuer and a wrong audience with
\* InvalidAudience.
C20_IssuerBeforeAudience ==
    \A r \in Reqs :
        (SignatureValid(r) /\ HasClaims(r)) =>
            /\ ExpiryPast(r) => req[r].out = TokenExpired
            /\ (ExpiryFuture(r) /\ IssuerMismatch(r)) =>
                    req[r].out = InvalidIssuer
            /\ (ExpiryFuture(r) /\ ~IssuerMismatch(r) /\ AudienceMismatch(r)) =>
                    req[r].out = InvalidAudience

\* C20's case is reached: an unexpired token with a valid signature whose
\* audience and issuer are both wrong.
C20_Witness ==
    \E r \in Reqs :
        /\ SignatureValid(r) /\ HasClaims(r)
        /\ ExpiryFuture(r)
        /\ AudienceMismatch(r) /\ IssuerMismatch(r)
        /\ req[r].out = InvalidIssuer

\* The validation's discovery request was answered with a document that has
\* the jwks_uri: the validation went on to request the key set.
DiscoverySucceeded(q) == req[q].nDisc >= 1 /\ req[q].nJwks >= 1

\* C21: once a discovery request has succeeded the key-set URL stays cached:
\* the validation that sent it sends no second one, its forced refresh
\* included, and no later validation sends any, whatever it invalidates.
C21_DiscoveryOnce ==
    \A q \in Reqs :
        DiscoverySucceeded(q) =>
            /\ jwksUri = <<Some("jwks_uri")>>
            /\ req[q].nDisc = 1
            /\ \A r \in Reqs : r > q => req[r].nDisc = 0

\* C21's case is reached: the first validation discovered the URL and
\* refreshed the key set; the second cleared the cache and fetched again.
C21_Witness ==
    /\ DiscoverySucceeded(1)
    /\ Done(1) /\ req[1].nClear = 1 /\ req[1].nJwks = 2
    /\ Done(2) /\ req[2].nClear = 1 /\ req[2].nJwks = 1
    /\ req[2].nDisc = 0

\* r is the validation after q, q resolved its key, and the kid of r's token
\* is in the key set q read last, which is the set q left in the cache.
KidInCachedSet(q, r) ==
    /\ r = q + 1
    /\ KeyResolved(q)
    /\ Done(r) /\ req[r].header.scheme = "Bearer" /\ req[r].token.form = "jwt"
    /\ Kid(r) \in JwksKeys(req[q].jwks[1])

\* C22: a key-set request is outstanding only while the key-set cache is
\* empty; a validation clears the cache only on a miss, once (when it has
\* cleared it, the set it had read does not have its kid); and a validation
\* whose kid is in the cached set sends no request and clears nothing.
C22_FetchOnlyWhenEmpty ==
    /\ \A r \in Reqs : req[r].pc = "jwks_wait" => jwksCache = <<>>
    /\ \A r \in Reqs : req[r].nClear = IF req[r].phase = 2 THEN 1 ELSE 0
    /\ \A r \in Reqs :
        (req[r].phase = 2 /\ req[r].nRead = 1) =>
            Kid(r) \notin JwksKeys(req[r].jwks[1])
    /\ \A q, r \in Reqs :
        KidInCachedSet(q, r) =>
            /\ req[r].nJwks = 0 /\ req[r].nDisc = 0 /\ req[r].nClear = 0
            /\ req[r].nRead = 1
            /\ req[r].key = Kid(r)

\* C22's case is reached: the second validation finds its kid in the set the
\* first one fetched.
C22_Witness ==
    /\ KidInCachedSet(1, 2)
    /\ req[1].nJwks = 1 /\ req[1].key = "k1"
    /\ Kid(2) = "k2"
    /\ req[2].nJwks = 0 /\ req[2].out = Accepted

\* The step in which the forced refresh of r completes: the answer to the
\* key-set request it sent after cache_clear() arrives with a document.
RefreshCompletes(r) ==
    /\ req[r].pc = "jwks_wait" /\ req[r].phase = 2
    /\ req'[r].pc = "lookup"

\* C23: when a forced refresh completes, the cache holds the fetched set and
\* nothing else: the kids resolvable from it are those the provider publishes
\* at that moment (none, for a document without keys), and a kid of the set
\* read before the refresh that the provider no longer publishes is not
\* resolvable any more.
C23_WholesaleReplace ==
    [][\A r \in Reqs :
        RefreshCompletes(r) =>
            /\ jwksCache' # <<>>
            /\ jwksCache' = <<req'[r].jwks[1]>>
            /\ JwksKeys(jwksCache'[1]) \in {published, {}}
            /\ \A k \in JwksKeys(req[r].jwks[1]) \ published :
                   k \notin JwksKeys(jwksCache'[1])]_vars

\* C23's case is reached: the set with k1 alone was cached, the refresh
\* brought the set with k2 alone, and k1 is not in the cache any more.
C23_Witness ==
    /\ KeyResolved(1) /\ req[1].jwks = Some(JwksDoc({"k1"}))
    /\ req[2].phase = 2 /\ req[2].nRead = 2
    /\ req[2].jwks = Some(JwksDoc({"k2"}))
    /\ jwksCache = <<JwksDoc({"k2"})>>

\* C24: a validation clears the key-set cache at most once, sends at most two
\* key-set requests (at most one of them after the clear) and at most one
\* discovery request, and once it is scheduled it ends, accepted or rejected.
C24_BoundedThenTerminates ==
    /\ [](\A r \in Reqs :
            /\ req[r].nClear <= 1
            /\ req[r].nRefetch <= 1
            /\ req[r].nJwks <= 1 + req[r].nClear
            /\ req[r].nDisc <= 1
            /\ Done(r) => req[r].out # Pending)
    /\ (req[1].pc = "queued") ~> Done(1)

\* C24's case is reached: a validation that used all it may, one discovery
\* request, one clear and two key-set requests, and ended.
C24_Witness ==
    /\ Done(1)
    /\ req[1].nDisc = 1 /\ req[1].nClear = 1 /\ req[1].nJwks = 2
    /\ req[1].out = SigningKeyNotFound

\* The header r brought has no "Bearer " prefix, or its token has no kid.
RejectedEarly(r) ==
    /\ req'[r].pc \notin {"new", "queued"}
    /\ \/ ~(req'[r].header.scheme = "Bearer" /\ req'[r].header.sep > 0)
       \/ req'[r].token.form = "jwt" /\ req'[r].token.kid = ""

\* C25: every step of a validation whose header has no "Bearer " prefix, or
\* whose token has no kid, leaves the two caches as they were, and the
\* validation sends no discovery request and no key-set request; and a
\* discovery request is sent only from _get_jwks() with both caches empty.
C25_LazyUpstream ==
    [][\A r \in Reqs :
        /\ (req'[r] # req[r] /\ RejectedEarly(r)) =>
                /\ jwksUri' = jwksUri /\ jwksCache' = jwksCache
                /\ req'[r].nDisc = 0 /\ req'[r].nJwks = 0 /\ req'[r].nRead = 0
                /\ req'[r].pc \in {"signing_key", "done"}
        /\ req'[r].nDisc # req[r].nDisc =>
                /\ req[r].pc = "get_jwks"
                /\ jwksCache = <<>> /\ jwksUri = <<>>]_vars

\* C25's case is reached: a request of another scheme was rejected and the
\* caches, empty before, are empty still.
C25_Witness ==
    /\ Done(1)
    /\ req[1].header.scheme = "Basic"
    /\ req[1].out = MissingCredential
    /\ jwksUri = <<>> /\ jwksCache = <<>>

\* The user dict has all four entries populated: an identity, a role list
\* (possibly empty), the token's claims and its expiry.
CompleteClaimSet(r) ==
    /\ req[r].user # None
    /\ req[r].user[1].preferred_username # None
    /\ req[r].user[1].token_exp # None
    /\ req[r].user[1].claims = Claims(r)

\* C26: a validation that has ended has either returned a complete claim set
\* or failed with one reason and returned nothing; never both, never a claim
\* set with an entry missing.
C26_TotalOutcomes ==
    \A r \in Reqs :
        Done(r) =>
            \/ req[r].out = Accepted /\ CompleteClaimSet(r)
            \/ Failed(r) /\ req[r].out # Pending /\ req[r].user = None

\* r is the validation after q and it got as far as asking for the key set.
NextNeedsKeySet(q, r) ==
    /\ r = q + 1
    /\ Done(r) /\ req[r].header.scheme = "Bearer" /\ Kid(r) # ""
\* No validation after q has started.
LastStarted(q) == \A r \in Reqs : r > q => req[r].pc \in {"new", "queued"}

\* C27: after a validation whose discovery request failed (no success, or a
\* document without jwks_uri) the cache of _get_jwks_uri is empty and the
\* next validation sends the discovery request again; after one whose
\* key-set request failed the cache of _get_jwks is empty and the next
\* validation sends the key-set request again.
C27_FailureNotCached ==
    \A q \in Reqs :
        /\ DiscoveryFailed(q) =>
            /\ LastStarted(q) => jwksUri = <<>>
            /\ \A r \in Reqs : NextNeedsKeySet(q, r) => req[r].nDisc = 1
        /\ KeySetFetchFailed(q) =>
            /\ LastStarted(q) => jwksCache = <<>>
            /\ \A r \in Reqs : NextNeedsKeySet(q, r) => req[r].nJwks >= 1

\* The validation missed in the set it read, cleared the cache, and its
\* refetch was not answered with success; req[q].jwks is still the old set.
RefetchFailed(q) ==
    /\ Done(q)
    /\ req[q].phase = 2 /\ req[q].nRefetch = 1
    /\ req[q].nRead = 1

\* C28: a validation whose forced refetch fails ends with the fetch failure,
\* not with SigningKeyNotFound, and leaves the key-set cache empty, the old
\* set gone: the next validation of a token whose kid was in the old set
\* sends a key-set request (and no discovery request).
C28_RefetchFailureLeavesEmpty ==
    \A q \in Reqs :
        RefetchFailed(q) =>
            /\ req[q].out = KeySetUnavailable
            /\ LastStarted(q) => jwksCache = <<>>
            /\ \A r \in Reqs :
                (NextNeedsKeySet(q, r) /\ Kid(r) \in JwksKeys(req[q].jwks[1])) =>
                    /\ req[r].nJwks >= 1 /\ req[r].nDisc = 0
                    /\ req[r].nRead = req[r].nJwks \/ UpstreamFailure(r)

\* C28's case is reached: the first validation missed k1 in the set with k2
\* alone and its refetch failed; the second, with a token of k2, fetched.
C28_Witness ==
    /\ RefetchFailed(1)
    /\ Kid(1) = "k1" /\ req[1].jwks = Some(JwksDoc({"k2"}))
    /\ req[1].out = KeySetUnavailable
    /\ Done(2) /\ Kid(2) = "k2"
    /\ req[2].nJwks = 1 /\ req[2].out = Accepted

\* C29: a valid, unexpired token whose kid is in the cached key set is
\* accepted from the cache, the provider not contacted, whatever the provider
\* publishes by then: a key it has removed since the fetch is accepted still.
C29_StaleKeyAccepted ==
    \A q, r \in Reqs :
        (/\ KidInCachedSet(q, r)
         /\ SignatureValid(r) /\ ExpiryFuture(r)
         /\ IssuerValid(r) /\ AudienceValid(r)) =>
            /\ req[r].out = Accepted
            /\ req[r].user # None
            /\ req[r].nDisc + req[r].nJwks = 0

\* C29's case is reached: the provider publishes no key any more, and the
\* second validation accepted a token of k1 from the set the first one cached.
C29_Witness ==
    /\ published = {}
    /\ KidInCachedSet(1, 2)
    /\ Kid(2) = "k1" /\ Kid(1) = "k1"
    /\ req[2].nJwks = 0 /\ req[2].nRead = 1
    /\ req[2].out = Accepted
    /\ jwksCache = <<JwksDoc({"k1"})>>

\* The keys of a GraphQL context without and with the user entry.
ContextKeys == {"storage_service", "cosmos_service", "demo_mode"}

\* get_current_user was called for the request and ended, with its return
\* or with an exception.
Consulted(r) == Done(r) /\ req[r].out \notin {NotCalled, AttributeError}

\* C30: get_graphql_context returns a context whatever happened; the context
\* has a "user" entry exactly when the request had an Authorization header
\* and get_current_user accepted it (the entry is the dict it returned); a
\* request with the header is put to get_current_user, whose failure leaves
\* the context without the entry; and without the header get_current_user is
\* not called and no request goes to the provider.
C30_OptionalAuthentication ==
    \A r \in Reqs : \A storage, cosmos \in ServiceValues :
        Done(r) =>
            LET ctx == GraphqlContext(storage, cosmos, req[r].out, req[r].user) IN
            /\ DOMAIN ctx \in {ContextKeys, ContextKeys \cup {"user"}}
            /\ \A k \in ContextKeys : ctx[k] = BaseContext(storage, cosmos)[k]
            /\ "user" \in DOMAIN ctx <=>
                    (HeaderTruthy(req[r].header) /\ req[r].out = Accepted)
            /\ "user" \in DOMAIN ctx => Some(ctx["user"]) = req[r].user
            /\ HeaderTruthy(req[r].header) => Consulted(r)
            /\ ~HeaderTruthy(req[r].header) =>
                    /\ ~Consulted(r)
                    /\ req[r].nDisc + req[r].nJwks + req[r].nRead = 0
                    /\ req[r].token = EmptyToken

\* What holds of the GraphQL requests: a context is always returned, it never
\* has a "user" entry, and get_current_user is never called, whatever the
\* Authorization header.
C30_NeverAuthenticated ==
    \A r \in Reqs : \A storage, cosmos \in ServiceValues :
        Done(r) =>
            /\ DOMAIN GraphqlContext(storage, cosmos, req[r].out, req[r].user) = ContextKeys
            /\ ~Consulted(r)
            /\ req[r].nDisc + req[r].nJwks + req[r].nRead = 0

\* A request with the bearer token of a published, cached key ended without
\* get_current_user being called.
C30_ValidTokenIgnored ==
    /\ Done(1)
    /\ req[1].header = Bearer(ValidToken("k1"))
    /\ "k1" \in published
    /\ jwksCache = <<JwksDoc({"k1"})>>
    /\ req[1].out = NotCalled

====
